---- MODULE Spec2Model ----
(***************************************************************************)
(* Model of src/src/main.cpp: the websocket message handler of the MPC     *)
(* controller (dispatch on the "42" prefix and hasData, latency            *)
(* prediction, waypoint transform, polynomial fit, error extraction, the   *)
(* call of MPC::Solve, packaging of the "steer" reply, sleep and send).    *)
(*                                                                         *)
(* A double is a fixed-point integer with three decimals (1.0 is Scale).   *)
(* A string is a sequence of one-character strings.                        *)
(***************************************************************************)
EXTENDS Integers, Sequences, FiniteSets, TLC

(***************************************************************************)
(* Bounds of the model.                                                    *)
(***************************************************************************)
\* Messages that may wait in the event loop while the handler runs.
MaxQueue == 1
\* Largest number of waypoints a telemetry message carries.
MaxPts == 7
\* Horizon length of the solver (MPC.cpp is not part of src/; any N >= 2).
N == 3

(***************************************************************************)
(* Fixed-point arithmetic for double.                                      *)
(***************************************************************************)
Scale == 10 * 10 * 10

Abs(a) == IF a < 0 THEN -a ELSE a

Sgn(a) == IF a < 0 THEN -1 ELSE 1

\* a * b on doubles, cut towards zero. A product beyond the 32-bit integers
\* of the checker is computed in two parts.
Mul(a, b) ==
  IF Abs(a) < 46000 /\ Abs(b) < 46000
    THEN Sgn(a) * Sgn(b) * ((Abs(a) * Abs(b)) \div Scale)
    ELSE LET hi == IF Abs(a) >= Abs(b) THEN Abs(a) ELSE Abs(b)
             lo == IF Abs(a) >= Abs(b) THEN Abs(b) ELSE Abs(a)
         IN  Sgn(a) * Sgn(b)
               * ((hi \div Scale) * lo + ((hi % Scale) * lo) \div Scale)

\* a / b on doubles (b # 0), cut towards zero.
Div(a, b) == Sgn(a) * Sgn(b) * ((Abs(a) * Scale) \div Abs(b))

\* constexpr double pi() { return M_PI; }
Pi == 3142

HalfPi == Pi \div 2

\* double deg2rad(double x) { return x * pi() / 180; }
deg2rad(x) == Mul(x, Pi) \div 180

\* The angle a brought into [-Pi, Pi].
WrapAngle(a) ==
  LET m == a % (2 * Pi)
  IN  IF m > Pi THEN m - 2 * Pi ELSE m

\* sin from <math.h>: reflection into [-Pi/2, Pi/2], then the Taylor series.
SinSeries(x) ==
  LET x2 == Mul(x, x)
      x3 == Mul(x2, x)
      x5 == Mul(x3, x2)
      x7 == Mul(x5, x2)
  IN  x - x3 \div 6 + x5 \div 120 - x7 \div 5040

sin(a) ==
  LET w == WrapAngle(a)
      r == IF w > HalfPi THEN Pi - w ELSE IF w < -HalfPi THEN -Pi - w ELSE w
  IN  Sgn(r) * SinSeries(Abs(r))

\* cos from <math.h>.
CosSeries(x) ==
  LET x2 == Mul(x, x)
      x4 == Mul(x2, x2)
      x6 == Mul(x4, x2)
      x8 == Mul(x4, x4)
  IN  Scale - x2 \div 2 + x4 \div 24 - x6 \div 720 + x8 \div 40320

cos(a) ==
  LET w == Abs(WrapAngle(a))
  IN  IF w > HalfPi THEN -CosSeries(Pi - w) ELSE CosSeries(w)

\* atan from <math.h>: x / (1 + 0.28 x^2) on [-1, 1] and
\* sgn(x) pi/2 - x / (x^2 + 0.28) outside (both within 0.005 rad).
atan(x) ==
  IF Abs(x) <= Scale
    THEN Div(x, Scale + Mul(280, Mul(x, x)))
    ELSE Sgn(x) * HalfPi - Div(x, Mul(x, x) + 280)

\* pow(x, i) from <math.h> for an integer exponent i >= 0; pow(x, 0) = 1.
RECURSIVE pow(_, _)
pow(x, i) == IF i = 0 THEN Scale ELSE Mul(pow(x, i - 1), x)

(***************************************************************************)
(* Program constants of main.cpp.                                          *)
(***************************************************************************)
\* double Lf = 2.67;
Lf == 2670
\* double latency = 0.1;
latency == 100
\* Eigen::Map<Eigen::VectorXd> ptsx_transform(ptrx, 6);
MapSize == 6
\* polyfit(ptsx_transform, ptsy_transform, 3)
FitOrder == 3
\* double poly_inc = 2.5;
poly_inc == 2500
\* int num_points = 25;
num_points == 25
\* deg2rad(25): the steering limit, in degrees.
SteerLimitDeg == 25000

(***************************************************************************)
(* Strings and hasData.                                                    *)
(***************************************************************************)
npos == 0

\* s.find(pat): the first position (from 1) where pat occurs in s, or npos.
Find(s, pat) ==
  LET hits == {i \in 1..(Len(s) - Len(pat) + 1) :
                  SubSeq(s, i, i + Len(pat) - 1) = pat}
  IN  IF hits = {} THEN npos ELSE CHOOSE i \in hits : \A k \in hits : i <= k

\* s.rfind(pat): the last position where pat occurs in s, or npos.
RFind(s, pat) ==
  LET hits == {i \in 1..(Len(s) - Len(pat) + 1) :
                  SubSeq(s, i, i + Len(pat) - 1) = pat}
  IN  IF hits = {} THEN npos ELSE CHOOSE i \in hits : \A k \in hits : i >= k

\* s.substr(pos, count): count is a size_t, so a negative count wraps to a
\* huge one and the substring runs to the end of s.
Substr(s, pos, count) ==
  IF count < 0 \/ pos + count - 1 > Len(s)
    THEN SubSeq(s, pos, Len(s))
    ELSE SubSeq(s, pos, pos + count - 1)

\* Faulty variant of hasData: the "null" test left out.
hasDataIgnoringNull(s) ==
  LET b1 == Find(s, <<"[">>)
      b2 == RFind(s, <<"}", "]">>)
  IN  IF b1 # npos /\ b2 # npos THEN Substr(s, b1, b2 - b1 + 2) ELSE <<>>

\* string hasData(string s)
hasData(s) ==
  LET found_null == Find(s, <<"n", "u", "l", "l">>)
      b1 == Find(s, <<"[">>)
      b2 == RFind(s, <<"}", "]">>)
  IN  IF found_null # npos THEN <<>>
      ELSE IF b1 # npos /\ b2 # npos THEN Substr(s, b1, b2 - b1 + 2)
      ELSE <<>>

\* sdata.size() > 2 && sdata[0] == '4' && sdata[1] == '2'
IsEvent(sdata) == Len(sdata) > 2 /\ sdata[1] = "4" /\ sdata[2] = "2"

\* j[0].get<string>() of json::parse(s): the letter after "[" stands for the
\* quoted event name ("T" for "telemetry").
EventOf(s) == IF Len(s) >= 2 /\ s[2] = "T" THEN "telemetry" ELSE "other"

(***************************************************************************)
(* polyeval and polyfit.                                                   *)
(***************************************************************************)
RECURSIVE PolyevalFrom(_, _, _)
PolyevalFrom(coeffs, x, i) ==
  IF i >= Len(coeffs) THEN 0
  ELSE Mul(coeffs[i + 1], pow(x, i)) + PolyevalFrom(coeffs, x, i + 1)

\* Faulty variant of polyeval: the loop started at i = 1.
polyevalSkippingConstant(coeffs, x) == PolyevalFrom(coeffs, x, 1)

\* double polyeval(Eigen::VectorXd coeffs, double x)
polyeval(coeffs, x) == PolyevalFrom(coeffs, x, 0)

\* The asserts of polyfit.
PolyfitAsserts(xvals, yvals, order) ==
  /\ Len(xvals) = Len(yvals)
  /\ order >= 1 /\ order <= Len(xvals) - 1

\* Row j of the matrix A of polyfit: A(j,0) = 1, A(j,i+1) = A(j,i) * xvals(j).
RECURSIVE DesignRow(_, _)
DesignRow(x, order) ==
  IF order = 0 THEN <<Scale>>
  ELSE LET r == DesignRow(x, order - 1) IN Append(r, Mul(r[order], x))

RECURSIVE Dot(_, _, _)
Dot(row, c, i) ==
  IF i > Len(row) THEN 0 ELSE Mul(row[i], c[i]) + Dot(row, c, i + 1)

\* The sum over the rows jj.. of (A(jj,:) c - yvals(jj))^2.
RECURSIVE SquaredResidual(_, _, _, _)
SquaredResidual(c, A, yvals, jj) ==
  IF jj > Len(yvals) THEN 0
  ELSE LET r == Dot(A[jj], c, 1) - yvals[jj]
       IN  Mul(r, r) + SquaredResidual(c, A, yvals, jj + 1)

\* The values the least-squares solve chooses coefficient i (from 0) from.
CoeffValues(i) == IF i <= 1 THEN {-500, 0, 500} ELSE {0, 50}

\* The coefficient vectors of length k over CoeffValues.
RECURSIVE CoeffVectors(_)
CoeffVectors(k) ==
  IF k = 0 THEN {<<>>}
  ELSE {Append(c, x) : c \in CoeffVectors(k - 1), x \in CoeffValues(k - 1)}

CoeffGrid(order) == CoeffVectors(order + 1)

Least(S) == CHOOSE a \in S : \A b \in S : a <= b

\* Lines 51-65: the matrix A, then A.householderQr().solve(yvals): the
\* least-squares solutions, searched on CoeffGrid.
polyfit(xvals, yvals, order) ==
  LET A == [jj \in 1..Len(xvals) |-> DesignRow(xvals[jj], order)]
      least == Least({SquaredResidual(c, A, yvals, 1) : c \in CoeffGrid(order)})
  IN  {c \in CoeffGrid(order) : SquaredResidual(c, A, yvals, 1) = least}

(***************************************************************************)
(* The stages of the telemetry branch, as operators.                       *)
(***************************************************************************)
\* Faulty variant of lines 101-104: psi assigned before px and py.
LatencyPredictPsiFirst(px, py, psi, v, steer_value, throttle_value) ==
  LET psi1 == psi - Mul(Div(Mul(v, steer_value), Lf), latency)
      px1 == px + Mul(Mul(v, cos(psi1)), latency)
      py1 == py + Mul(Mul(v, sin(psi1)), latency)
      v1 == v + Mul(throttle_value, latency)
  IN  [px |-> px1, py |-> py1, psi |-> psi1, v |-> v1]

\* Lines 101-104: the four assignments in their order; each reads the
\* variables as they are when it runs.
LatencyPredict(px, py, psi, v, steer_value, throttle_value) ==
  LET px1 == px + Mul(Mul(v, cos(psi)), latency)
      py1 == py + Mul(Mul(v, sin(psi)), latency)
      psi1 == psi - Mul(Div(Mul(v, steer_value), Lf), latency)
      v1 == v + Mul(throttle_value, latency)
  IN  [px |-> px1, py |-> py1, psi |-> psi1, v |-> v1]

\* Lines 107-112: the waypoints in the frame of the pose (px, py, psi).
TransformX(ptsx, ptsy, px, py, psi) ==
  [i \in 1..Len(ptsx) |->
     Mul(ptsx[i] - px, cos(0 - psi)) - Mul(ptsy[i] - py, sin(0 - psi))]

TransformY(ptsx, ptsy, px, py, psi) ==
  [i \in 1..Len(ptsx) |->
     Mul(ptsx[i] - px, sin(0 - psi)) + Mul(ptsy[i] - py, cos(0 - psi))]

\* What a read past the end of a vector<double> may give: the map reads at
\* most three doubles past a heap block, which are arbitrary values.
Garbage == {-2000, 3000}

\* Elements read past the end of a vector of n elements by a map of MapSize.
Overread(n) == IF n < MapSize THEN MapSize - n ELSE 0

\* Eigen::Map<Eigen::VectorXd>(&pts[0], 6): the first MapSize doubles from
\* the start of pts; past its end they are the ones in tail.
Mapped(pts, tail) ==
  [i \in 1..MapSize |-> IF i <= Len(pts) THEN pts[i] ELSE tail[i - Len(pts)]]

\* Lines 129-135: state << 0, 0, 0, v, cte, epsi.
ErrorState(coeffs, v) ==
  LET cte == polyeval(coeffs, 0)
      epsi == -atan(coeffs[2])
  IN  <<0, 0, 0, v, cte, epsi>>

(***************************************************************************)
(* MPC::Solve. MPC.cpp is not among the sources: the solver is any result  *)
(* within the actuator bounds whose trajectory follows the dynamics.       *)
(***************************************************************************)
\* The timestep of the horizon.
dt == 100

\* The steering bound of the solver, max_steer.
MaxSteer == deg2rad(SteerLimitDeg)

SteerPicks == {-MaxSteer, MaxSteer}

ThrottlePicks == {-Scale, Scale}

RECURSIVE Rollout(_, _, _, _, _, _, _)
Rollout(x, y, psi, v, delta, a, steps) ==
  IF steps = 0 THEN <<>>
  ELSE LET x1 == x + Mul(Mul(v, cos(psi)), dt)
           y1 == y + Mul(Mul(v, sin(psi)), dt)
           psi1 == psi - Mul(Div(Mul(v, delta), Lf), dt)
           v1 == v + Mul(a, dt)
       IN  <<x1, y1>> \o Rollout(x1, y1, psi1, v1, delta, a, steps - 1)

\* The results of mpc.Solve(state, coeffs):
\* (steering[0], throttle[0], x[1], y[1], ..., x[N-1], y[N-1]).
Solve(state, coeffs) ==
  {<<d, a>> \o Rollout(state[1], state[2], state[3], state[4], d, a, N - 1) :
     d \in SteerPicks, a \in ThrottlePicks}

(***************************************************************************)
(* Packaging of the reply.                                                 *)
(***************************************************************************)
\* Lines 153-156.
NextXVals == [i \in 1..(num_points - 1) |-> poly_inc * i]

NextYVals(coeffs) ==
  [i \in 1..(num_points - 1) |-> polyeval(coeffs, poly_inc * i)]

\* Lines 163-169: i is the C++ index, vars[i] is vars[i + 1] here.
RECURSIVE MpcLoop(_, _, _, _)
MpcLoop(vars, i, xs, ys) ==
  IF i < Len(vars)
    THEN IF i % 2 = 0
           THEN MpcLoop(vars, i + 1, Append(xs, vars[i + 1]), ys)
           ELSE MpcLoop(vars, i + 1, xs, Append(ys, vars[i + 1]))
    ELSE [x |-> xs, y |-> ys]

\* Faulty variant of the loop: started at i = 1.
MpcValsFromThrottle(vars) == MpcLoop(vars, 1, <<>>, <<>>)

MpcVals(vars) == MpcLoop(vars, 2, <<>>, <<>>)

\* Faulty variant of the control inputs: the steering multiplied by Lf
\* instead of divided by it.
ControlInputsTimesLf(vars) ==
  [steering_angle |-> Div(Mul(vars[1], Lf), deg2rad(SteerLimitDeg)),
   throttle |-> vars[2]]

\* Lines 176-177.
ControlInputs(vars) ==
  [steering_angle |-> Div(vars[1], Mul(deg2rad(SteerLimitDeg), Lf)),
   throttle |-> vars[2]]

\* Lines 172-188: "42[\"steer\"," + msgJson.dump() + "]".
SteerMsg(vars, coeffs) ==
  [event |-> "steer",
   steering_angle |-> ControlInputs(vars).steering_angle,
   throttle |-> ControlInputs(vars).throttle,
   mpc_x |-> MpcVals(vars).x,
   mpc_y |-> MpcVals(vars).y,
   next_x |-> NextXVals,
   next_y |-> NextYVals(coeffs)]

\* Line 204: "42[\"manual\",{}]".
ManualMsg == [event |-> "manual"]

(***************************************************************************)
(* Incoming messages.                                                      *)
(***************************************************************************)
TelemetryText == <<"4", "2", "[", "T", "{", "}", "]">>

OtherTexts ==
  { <<>>,
    <<"4", "2">>,
    <<"4", "0", "[", "T", "{", "}", "]">>,
    <<"4", "2", "x">>,
    <<"4", "2", "[", "T">>,
    <<"4", "2", "}", "]", "[">>,
    <<"4", "2", "[", "T", "{", "n", "u", "l", "l", "}", "]">>,
    <<"4", "2", "[", "O", "{", "}", "]">> }

Bends == {0, 200}

\* The measured heading with the steering angle of the last command.
Turns == {<<0, 0>>, <<400, 250>>}

\* The telemetry objects j[1]: n waypoints 4 m apart along the map's x axis,
\* 0.5 m to the left of it, bending away by bend * i^2.
Payloads ==
  {[ptsx |-> [i \in 1..n |-> 4000 * i],
    ptsy |-> [i \in 1..n |-> 500 + b * i * i],
    x |-> 1000, y |-> 500, psi |-> t[1], speed |-> 10000,
    steering_angle |-> t[2], throttle |-> 500] :
     n \in 3..MaxPts, b \in Bends, t \in Turns}

NoBody == [ptsx |-> <<>>, ptsy |-> <<>>, x |-> 0, y |-> 0, psi |-> 0,
           speed |-> 0, steering_angle |-> 0, throttle |-> 0]

Messages ==
  {[text |-> t, body |-> NoBody] : t \in OtherTexts}
    \cup {[text |-> TelemetryText, body |-> b] : b \in Payloads}

(***************************************************************************)
(* State.                                                                  *)
(***************************************************************************)
VARIABLES
  pending,    \* messages received by the event loop and not yet handled
  pc,         \* position of the handler: "idle" or the stage to run next
  sdata,      \* the message being handled (of the last one, when idle)
  j,          \* json::parse(s): [event, data]
  px, py, psi, v,   \* the locals of the telemetry branch
  ptsx, ptsy,
  xvals, yvals,     \* ptsx_transform, ptsy_transform: the input of polyfit
  coeffs,
  state,
  vars,             \* the result of mpc.Solve
  msg,              \* the reply built by the packaging
  sent,       \* the replies ws.send has sent while handling sdata
  lastSteer,  \* the control inputs of the latest "steer" sent, <<>> if none
  stages      \* the stages run so far while handling sdata

vars_all ==
  <<pending, pc, sdata, j, px, py, psi, v, ptsx, ptsy, xvals, yvals, coeffs,
    state, vars, msg, sent, lastSteer, stages>>

NoJson == [event |-> "none", data |-> NoBody]

NoMsg == [event |-> "none"]

\* Faulty variant of the order: the transform before the prediction.
PipelineTransformFirst ==
  <<"transform", "latency", "fit", "errors", "solve", "package", "sleep", "send">>

\* The statements of the telemetry branch in the order of the source:
\* latency prediction (99-104), waypoint transform (107-112), fit (117-124),
\* errors and state (129-135), solve (142), packaging (147-188),
\* sleep (199), send (200).
Pipeline ==
  <<"latency", "transform", "fit", "errors", "solve", "package", "sleep", "send">>

\* The stage that follows stage s.
After(s) ==
  LET i == CHOOSE k \in 1..Len(Pipeline) : Pipeline[k] = s
  IN  IF i = Len(Pipeline) THEN "idle" ELSE Pipeline[i + 1]

\* Faulty variant: the loop calls the handler while a call is running.
HandlerFreeAnyTime == TRUE

\* The handler is called from the single thread of h.run(), and returns
\* before the loop takes the next message.
HandlerFree == pc = "idle"

\* The locals of the handler before the telemetry branch has set them.
LocalsCleared ==
  /\ px' = 0 /\ py' = 0 /\ psi' = 0 /\ v' = 0
  /\ ptsx' = <<>> /\ ptsy' = <<>>
  /\ xvals' = <<>> /\ yvals' = <<>>
  /\ coeffs' = <<>> /\ state' = <<>> /\ vars' = <<>> /\ msg' = NoMsg

Init ==
  /\ pending = 0
  /\ pc = "idle"
  /\ sdata = <<>>
  /\ j = NoJson
  /\ px = 0 /\ py = 0 /\ psi = 0 /\ v = 0
  /\ ptsx = <<>> /\ ptsy = <<>>
  /\ xvals = <<>> /\ yvals = <<>>
  /\ coeffs = <<>> /\ state = <<>> /\ vars = <<>> /\ msg = NoMsg
  /\ sent = <<>>
  /\ lastSteer = <<>>
  /\ stages = <<>>

(***************************************************************************)
(* Actions.                                                                *)
(***************************************************************************)
\* A message reaches the socket; the event loop holds it until the handler
\* is free.
Arrive ==
  /\ pending < MaxQueue
  /\ pending' = pending + 1
  /\ UNCHANGED <<pc, sdata, j, px, py, psi, v, ptsx, ptsy, xvals, yvals,
                 coeffs, state, vars, msg, sent, lastSteer, stages>>

\* Lines 79-96 and 202-206: the event loop calls the handler with message m.
OnMessage(m) ==
  /\ HandlerFree
  /\ pending > 0
  /\ pending' = pending - 1
  /\ sdata' = m.text
  /\ stages' = <<>>
  /\ UNCHANGED lastSteer
  /\ IF IsEvent(m.text)
       THEN IF hasData(m.text) # <<>>
              THEN /\ j' = [event |-> EventOf(hasData(m.text)), data |-> m.body]
                   /\ sent' = <<>>
                   /\ IF EventOf(hasData(m.text)) = "telemetry"
                        THEN /\ ptsx' = m.body.ptsx
                             /\ ptsy' = m.body.ptsy
                             /\ px' = m.body.x
                             /\ py' = m.body.y
                             /\ psi' = m.body.psi
                             /\ v' = m.body.speed
                             /\ xvals' = <<>> /\ yvals' = <<>>
                             /\ coeffs' = <<>> /\ state' = <<>>
                             /\ vars' = <<>> /\ msg' = NoMsg
                             /\ pc' = Pipeline[1]
                        ELSE /\ LocalsCleared
                             /\ pc' = "idle"
              ELSE /\ j' = NoJson
                   /\ sent' = <<ManualMsg>>
                   /\ LocalsCleared
                   /\ pc' = "idle"
       ELSE /\ j' = NoJson
            /\ sent' = <<>>
            /\ LocalsCleared
            /\ pc' = "idle"

\* Lines 99-104.
Latency ==
  /\ pc = "latency"
  /\ LET p == LatencyPredict(px, py, psi, v, j.data.steering_angle,
                             j.data.throttle)
     IN  /\ px' = p.px /\ py' = p.py /\ psi' = p.psi /\ v' = p.v
  /\ pc' = After(pc)
  /\ stages' = Append(stages, "latency")
  /\ UNCHANGED <<pending, sdata, j, ptsx, ptsy, xvals, yvals, coeffs, state,
                 vars, msg, sent, lastSteer>>

\* Lines 107-112.
Transform ==
  /\ pc = "transform"
  /\ ptsx' = TransformX(ptsx, ptsy, px, py, psi)
  /\ ptsy' = TransformY(ptsx, ptsy, px, py, psi)
  /\ pc' = After(pc)
  /\ stages' = Append(stages, "transform")
  /\ UNCHANGED <<pending, sdata, j, px, py, psi, v, xvals, yvals, coeffs,
                 state, vars, msg, sent, lastSteer>>

\* Lines 117-124: the two maps of MapSize elements, then polyfit. A failed
\* assert of polyfit aborts the process.
Fit ==
  /\ pc = "fit"
  /\ \E tx \in [1..Overread(Len(ptsx)) -> Garbage],
        ty \in [1..Overread(Len(ptsy)) -> Garbage] :
       /\ xvals' = Mapped(ptsx, tx)
       /\ yvals' = Mapped(ptsy, ty)
       /\ IF PolyfitAsserts(xvals', yvals', FitOrder)
            THEN /\ coeffs' \in polyfit(xvals', yvals', FitOrder)
                 /\ pc' = After(pc)
            ELSE /\ coeffs' = coeffs
                 /\ pc' = "aborted"
  /\ stages' = Append(stages, "fit")
  /\ UNCHANGED <<pending, sdata, j, px, py, psi, v, ptsx, ptsy, state, vars,
                 msg, sent, lastSteer>>

\* Lines 129-135.
Errors ==
  /\ pc = "errors"
  /\ state' = ErrorState(coeffs, v)
  /\ pc' = After(pc)
  /\ stages' = Append(stages, "errors")
  /\ UNCHANGED <<pending, sdata, j, px, py, psi, v, ptsx, ptsy, xvals, yvals,
                 coeffs, vars, msg, sent, lastSteer>>

\* Line 142.
SolveStep ==
  /\ pc = "solve"
  /\ vars' \in Solve(state, coeffs)
  /\ pc' = After(pc)
  /\ stages' = Append(stages, "solve")
  /\ UNCHANGED <<pending, sdata, j, px, py, psi, v, ptsx, ptsy, xvals, yvals,
                 coeffs, state, msg, sent, lastSteer>>

\* Lines 147-188.
Package ==
  /\ pc = "package"
  /\ msg' = SteerMsg(vars, coeffs)
  /\ pc' = After(pc)
  /\ stages' = Append(stages, "package")
  /\ UNCHANGED <<pending, sdata, j, px, py, psi, v, ptsx, ptsy, xvals, yvals,
                 coeffs, state, vars, sent, lastSteer>>

\* Line 199: this_thread::sleep_for(chrono::milliseconds(100)).
Sleep ==
  /\ pc = "sleep"
  /\ pc' = After(pc)
  /\ UNCHANGED <<pending, sdata, j, px, py, psi, v, ptsx, ptsy, xvals, yvals,
                 coeffs, state, vars, msg, sent, lastSteer, stages>>

\* Line 200: ws.send, then the handler returns and its locals are gone.
Send ==
  /\ pc = "send"
  /\ sent' = Append(sent, msg)
  /\ lastSteer' = <<msg.steering_angle, msg.throttle>>
  /\ pc' = After(pc)
  /\ LocalsCleared
  /\ UNCHANGED <<pending, sdata, j, stages>>

HandlerStep ==
  \/ Latency \/ Transform \/ Fit \/ Errors \/ SolveStep \/ Package
  \/ Sleep \/ Send

Next ==
  \/ Arrive
  \/ \E m \in Messages : OnMessage(m)
  \/ HandlerStep

Spec == Init /\ [][Next]_vars_all

(***************************************************************************)
(* Properties.                                                             *)
(***************************************************************************)
Ran(s) == \E i \in 1..Len(stages) : stages[i] = s

\* The handler is inside the telemetry branch.
Running == pc \notin {"idle", "aborted"}

\* The handler has returned from a telemetry message.
TickDone == pc = "idle" /\ j.event = "telemetry"

StagesOfSource ==
  <<"latency", "transform", "fit", "errors", "solve", "package">>

IsPrefix(a, b) == Len(a) <= Len(b) /\ a = SubSeq(b, 1, Len(a))

\* What holds of a run of the telemetry branch in every state.
C1_TickState ==
  /\ TickDone =>
       /\ stages = StagesOfSource
       /\ Len(sent) = 1 /\ sent[1].event = "steer"
  /\ Running =>
       /\ sent = <<>> /\ IsPrefix(stages, StagesOfSource)
  /\ pc # "aborted"

\* What holds of every step: a message is handed to the handler only when
\* it is idle, the reply of a run is sent by its last step, and the sleep
\* comes right before that step.
C1_TickStep ==
  /\ pending' < pending => pc = "idle"
  /\ sent' # sent /\ pc # "idle" => pc = "send" /\ pc' = "idle"
  /\ pc = "sleep" => pc' \in {"sleep", "send"}

\* C1: every telemetry event gets one run of the pipeline, which ends with
\* exactly one "steer" sent after the sleep; the event loop hands the next
\* message to the handler only when the run before it has returned, so no
\* two runs overlap, and a run never stops at a failed assert.
C1_OneRunPerTelemetry ==
  /\ []C1_TickState
  /\ [][C1_TickStep]_vars_all

C1_Witness == pc = "send" /\ pending > 0 /\ stages = StagesOfSource

\* C2: the steering_angle and the throttle of every "steer" message lie
\* within [-1, 1].
C2_ActuatorRange ==
  /\ \A i \in 1..Len(sent) :
       sent[i].event = "steer" =>
         /\ Abs(sent[i].steering_angle) <= Scale
         /\ Abs(sent[i].throttle) <= Scale
  /\ msg.event = "steer" =>
       Abs(msg.steering_angle) <= Scale /\ Abs(msg.throttle) <= Scale

C2_Witness ==
  /\ pc = "send" /\ vars[1] = MaxSteer /\ vars[2] = -Scale
  /\ msg.steering_angle > 0 /\ msg.throttle = -Scale

\* C3 (as claimed): the steering_angle of the "steer" message is the
\* solver's steering divided by max_steer = deg2rad(25), and the throttle is
\* the solver's throttle.
C3_SteeringOverMaxSteer ==
  msg.event = "steer" =>
    /\ msg.steering_angle = Div(vars[1], deg2rad(SteerLimitDeg))
    /\ msg.throttle = vars[2]

\* C4 (as claimed): a tick whose waypoints are too few for the cubic fit
\* sends the command of the tick before it again.
C4_FallbackOnDegenerateFit ==
  [][(pc = "send" /\ pc' = "idle" /\ Len(j.data.ptsx) <= FitOrder
        /\ lastSteer # <<>>)
       => lastSteer' = lastSteer]_vars_all

\* C5: after the latency prediction the pose and the speed are the measured
\* ones advanced by one step of length latency, every right-hand side read
\* from the measured values; the transform and the state use these.
C5_MeasuredAdvanced ==
  LET m == j.data IN
  /\ Running /\ Ran("latency") =>
       /\ px = m.x + Mul(Mul(m.speed, cos(m.psi)), latency)
       /\ py = m.y + Mul(Mul(m.speed, sin(m.psi)), latency)
       /\ psi = m.psi - Mul(Div(Mul(m.speed, m.steering_angle), Lf), latency)
       /\ v = m.speed + Mul(m.throttle, latency)
  /\ Running /\ Ran("latency") /\ Ran("transform") =>
       /\ ptsx = TransformX(m.ptsx, m.ptsy, px, py, psi)
       /\ ptsy = TransformY(m.ptsx, m.ptsy, px, py, psi)
  /\ Running /\ Ran("latency") /\ Ran("errors") => state[4] = v

C5_Witness ==
  /\ pc = "solve"
  /\ psi # j.data.psi /\ px # j.data.x /\ py # j.data.y /\ v # j.data.speed

\* C6 (amended): the stages of a tick run once each in the order latency
\* prediction, waypoint transform (to the frame of the predicted pose), fit,
\* errors, solve, packaging.
C6_StageOrder ==
  /\ Running => IsPrefix(stages, StagesOfSource)
  /\ pc \in {"sleep", "send"} \/ TickDone => stages = StagesOfSource
  /\ Running /\ Ran("transform") =>
       /\ Ran("latency")
       /\ ptsx = TransformX(j.data.ptsx, j.data.ptsy, px, py, psi)

C6_Witness == pc = "sleep" /\ Len(stages) = 6 /\ psi # j.data.psi

\* C6 (as claimed): the waypoint transform runs before the latency
\* prediction.
C6_TransformBeforeLatency ==
  Running =>
    IsPrefix(stages,
      <<"transform", "latency", "fit", "errors", "solve", "package">>)

\* C7: the state handed to the solver is (0, 0, 0, v', cte, epsi) with v'
\* the predicted speed, cte the coefficient c0 and epsi = -atan(c1); c0 = 0
\* and c1 = 0 give cte = 0 and epsi = 0.
C7_SolverState ==
  state # <<>> =>
    /\ state = <<0, 0, 0, j.data.speed + Mul(j.data.throttle, latency),
                 coeffs[1], -atan(coeffs[2])>>
    /\ coeffs[1] = 0 /\ coeffs[2] = 0 => state[5] = 0 /\ state[6] = 0

C7_Witness == pc = "solve" /\ state[5] # 0 /\ state[6] # 0

\* C8 (as claimed): with n >= 4 waypoints the fit gets exactly the n
\* transformed waypoints, in order.
C8_FitGetsAllWaypoints ==
  xvals # <<>> /\ Len(ptsx) >= 4 =>
    /\ xvals = ptsx /\ yvals = ptsy
    /\ Overread(Len(ptsx)) = 0

\* C9: mpc_x and mpc_y have N - 1 elements each, the i-th being x[i] and
\* y[i] of the solver's result (steering, throttle, x[1], y[1], ...).
C9_Trajectory ==
  msg.event = "steer" /\ Len(vars) = 2 + 2 * (N - 1) =>
    /\ Len(msg.mpc_x) = N - 1 /\ Len(msg.mpc_y) = N - 1
    /\ \A i \in 1..(N - 1) :
         msg.mpc_x[i] = vars[2 * i + 1] /\ msg.mpc_y[i] = vars[2 * i + 2]

C9_Witness ==
  /\ pc = "send" /\ Len(vars) = 2 * N /\ N >= 3
  /\ msg.mpc_x[2] # msg.mpc_y[2] /\ msg.mpc_x[1] # vars[2]

\* C10: a message gets at most one reply: none unless it starts with "42"
\* and is longer than 2; "manual" when hasData gives the empty string; one
\* "steer" for a telemetry event; none for any other event.
C10_Replies ==
  /\ Len(sent) <= 1
  /\ Running =>
       /\ sent = <<>>
       /\ IsEvent(sdata) /\ EventOf(hasData(sdata)) = "telemetry"
       /\ Find(sdata, <<"n", "u", "l", "l">>) = npos
  /\ pc = "idle" =>
       /\ ~IsEvent(sdata) => sent = <<>>
       /\ IsEvent(sdata) /\ hasData(sdata) = <<>> => sent = <<ManualMsg>>
       /\ IsEvent(sdata)
            /\ (\/ Find(sdata, <<"n", "u", "l", "l">>) # npos
                \/ Find(sdata, <<"[">>) = npos
                \/ RFind(sdata, <<"}", "]">>) = npos)
            => sent = <<ManualMsg>>
       /\ IsEvent(sdata) /\ hasData(sdata) # <<>>
            /\ EventOf(hasData(sdata)) = "telemetry"
            => Len(sent) = 1 /\ sent[1].event = "steer"
       /\ IsEvent(sdata) /\ hasData(sdata) # <<>>
            /\ EventOf(hasData(sdata)) # "telemetry"
            => sent = <<>>

C10_Witness ==
  /\ pc = "idle" /\ sent = <<ManualMsg>>
  /\ Find(sdata, <<"n", "u", "l", "l">>) # npos
  /\ Find(sdata, <<"[">>) # npos /\ RFind(sdata, <<"}", "]">>) # npos

====
